---- MODULE Spec2Model ----
(***************************************************************************)
(* Model of the mecademic_pydriver message log (MecademicLog) and command  *)
(* dispatcher (RobotController).                                           *)
(*                                                                         *)
(* A code is the sequence of its decimal digits, so that the prefix test   *)
(* str.startswith is computed, not assumed.  A log entry is the tuple      *)
(* (code, payload) of the source plus `seq`, the arrival number of the     *)
(* frame; `seq` is history only: no operation of the log reads it.         *)
(***************************************************************************)
EXTENDS Integers, Sequences, FiniteSets, TLC

\* ------------------------------------------------------------------ bounds
LogSize   == 2   \* log_size given to the constructor
MaxFrames == 3   \* frames the robot emits in one behaviour
MaxCalls  == 2   \* command invocations in one behaviour

\* ------------------------------------------------------------------- codes
C1005 == <<1, 0, 0, 5>>
C1011 == <<1, 0, 1, 1>>
C1013 == <<1, 0, 1, 3>>
C1025 == <<1, 0, 2, 5>>
C2000 == <<2, 0, 0, 0>>
C2001 == <<2, 0, 0, 1>>
C2005 == <<2, 0, 0, 5>>
C2006 == <<2, 0, 0, 6>>
C2007 == <<2, 0, 0, 7>>
C2029 == <<2, 0, 2, 9>>
C2052 == <<2, 0, 5, 2>>
C2053 == <<2, 0, 5, 3>>
C2054 == <<2, 0, 5, 4>>
C2055 == <<2, 0, 5, 5>>
C3000 == <<3, 0, 0, 0>>
C3001 == <<3, 0, 0, 1>>
C3004 == <<3, 0, 0, 4>>
GenericError == <<1>>

\* codes the robot emits in the model
RobotCodes == {C1005, C1011, C1013, C1025, C2000, C2001, C2005, C3004}
\* codes the robot emits where the EOB/EOM toggles are exercised
ToggleCodes == {C1011, C2052, C2053, C2054, C2055, C3004}

NoMsg == [code |-> <<>>, payload |-> 0, seq |-> 0]

VARIABLES
    log,        \* MecademicLog.log, leftmost (oldest appended) first
    channel,    \* frames received on the socket and not yet read
    emitted,    \* number of frames the robot has emitted
    pc,         \* position of the caller inside the current command
    cmd,        \* name of the command being (or last) executed
    calls,      \* number of commands invoked
    wire,       \* number of transmissions of the current invocation
    trace,      \* steps of the current invocation, in execution order
    outcome,    \* how the last invocation ended ("none" while running)
    reported,   \* the entry attached to the raised error, or NoMsg
    reportedBy, \* the check that raised: "specific", "generic" or "none"
    matched,    \* the response code that satisfied check_response, or <<>>
    chkLogs,    \* the log right after each post-send refresh of the invocation
    startLog,   \* the log when the invocation started
    evicted,    \* arrival numbers discarded by the capacity of the deque
    motionErr,  \* the "1" entries in the log when the last motion command returned
    maxlen,     \* MecademicLog.log.maxlen, set from log_size at construction
    result,     \* what the last log operation or query returned
    EOB,        \* MecademicRobot.EOB, the End-Of-Block flag kept by the client
    EOM,        \* MecademicRobot.EOM, the End-Of-Movement flag kept by the client
    callers,    \* position and bookkeeping of concurrent callers of one dispatcher
    arg,        \* the argument the current command was called with (0: none)
    error,      \* MecademicRobot.error, set when an error code was received
    cb,         \* MecademicLog.on_new_messages_received_cb is set
    notified,   \* the calls of the callback: the batch given, the log it saw
    socket,     \* RobotController.socket is set (not None)
    logId,      \* RobotController.mecademic_log: 0 for None, else which instance
    born,       \* number of frames emitted before the present socket was
                \* opened; -1 while no connection is established
    blamed,     \* the method name in the message of the error raised, or "none"
    bytes       \* the last transmission, as a sequence of tokens

\* the state the request/motion protocol of one caller does not touch
link == <<socket, logId, born>>
hook == <<cb, notified, bytes>>
ext == <<maxlen, result, EOB, EOM, callers, error, link, hook>>

vars == <<log, channel, emitted, pc, cmd, calls, wire, trace, outcome,
          reported, reportedBy, matched, chkLogs, startLog, evicted, motionErr,
          maxlen, result, EOB, EOM, callers, arg, error, cb, notified,
          socket, logId, born, blamed, bytes>>

\* ------------------------------------------------------- MecademicLog (pure)
StartsWith(code, prefix) ==
    /\ Len(prefix) <= Len(code)
    /\ SubSeq(code, 1, Len(prefix)) = prefix

Reverse(s) == [i \in 1..Len(s) |-> s[Len(s) + 1 - i]]

SeqsOf(s) == {s[i].seq : i \in 1..Len(s)}

HasPrefix(l, prefix) == \E i \in 1..Len(l) : StartsWith(l[i].code, prefix)

CountPrefix(l, prefix) == Cardinality({i \in 1..Len(l) : StartsWith(l[i].code, prefix)})

\* variant: a deque without maxlen
list_extend(l, msgs) == l \o msgs

\* deque(maxlen).extend: append on the right, discard on the left
deque_extend(l, msgs) ==
    LET all == l \o msgs
    IN  IF Len(all) <= maxlen THEN all
        ELSE SubSeq(all, Len(all) - maxlen + 1, Len(all))

\* deque.remove(value): the first entry equal to (code, payload)
SameValue(a, b) == a.code = b.code /\ a.payload = b.payload

deque_remove(l, m) ==
    IF \E i \in 1..Len(l) : SameValue(l[i], m)
    THEN LET k == CHOOSE i \in 1..Len(l) :
                     /\ SameValue(l[i], m)
                     /\ \A j \in 1..(i - 1) : ~SameValue(l[j], m)
         IN  SubSeq(l, 1, k - 1) \o SubSeq(l, k + 1, Len(l))
    ELSE l

\* the first element of s, as a sequence of at most one
FirstOnly(s) == IF s = <<>> THEN s ELSE <<Head(s)>>

RECURSIVE RemoveEach(_, _)
RemoveEach(l, ms) ==
    IF ms = <<>> THEN l
    ELSE RemoveEach(deque_remove(l, Head(ms)), Tail(ms))

\* variant: the removal loop stops after the first match
remove_first_code(l, code) ==
    RemoveEach(l, FirstOnly(SelectSeq(l, LAMBDA m : StartsWith(m.code, code))))

remove_all_code(l, code) ==
    RemoveEach(l, SelectSeq(l, LAMBDA m : StartsWith(m.code, code)))

\* index of the first match scanning reversed(log), 0 when none
LastIndex(l, code) ==
    IF HasPrefix(l, code)
    THEN CHOOSE i \in 1..Len(l) :
             /\ StartsWith(l[i].code, code)
             /\ \A j \in (i + 1)..Len(l) : ~StartsWith(l[j].code, code)
    ELSE 0

\* the delete_others = False branch: reverse, remove, and the second
\* `self.log.reverse` is not called
RemoveMatchOnly(l, m) == deque_remove(Reverse(l), m)

\* variant: delete_others is not looked at
get_last_code_occurance_match_only(l, code, delete_others) ==
    LET k == LastIndex(l, code)
    IN  IF k = 0 THEN [msg |-> NoMsg, log |-> l]
        ELSE [msg |-> l[k], log |-> RemoveMatchOnly(l, l[k])]

\* variant: the deque is reversed before the match is looked at
get_last_code_occurance_reversing(l, code, delete_others) ==
    LET k == LastIndex(l, code)
    IN  IF k = 0 THEN [msg |-> NoMsg, log |-> Reverse(l)]
        ELSE [msg |-> l[k],
              log |-> IF delete_others THEN remove_all_code(l, code)
                      ELSE RemoveMatchOnly(l, l[k])]

get_last_code_occurance(l, code, delete_others) ==
    LET k == LastIndex(l, code)
    IN  IF k = 0 THEN [msg |-> NoMsg, log |-> l]
        ELSE [msg |-> l[k],
              log |-> IF delete_others THEN remove_all_code(l, code)
                      ELSE RemoveMatchOnly(l, l[k])]


\* ------------------------------------------------- frame source (external)
\* MessageReceiver.wait_for_new_messages(timeout): returns when a frame is
\* available or the timeout expires; timeout None waits forever
WaitReturns(wait, timeout, ch) ==
    \/ ~wait
    \/ timeout # "None"
    \/ ch # <<>>

\* MessageReceiver.get_last_messages(n): the frames available, the last n at most
get_last_messages(ch, n) ==
    IF Len(ch) <= n THEN ch ELSE SubSeq(ch, Len(ch) - n + 1, Len(ch))

\* the merge of update_log: self.log.extend(messages)
update_log(l, ch) == deque_extend(l, get_last_messages(ch, maxlen))

\* variant: the callback is called after the batch was merged
update_log_merge_first(c, l, ch, n) ==
    LET messages == get_last_messages(ch, maxlen)
    IN  [log |-> update_log(l, ch),
         notified |-> IF messages # <<>> /\ c
                      THEN Append(n, [batch |-> messages,
                                      seen |-> update_log(l, ch)])
                      ELSE n]

\* update_log with the callback c: `if messages:` the callback, when set, is
\* given the batch while the log is still l, then the batch is merged
update_log_cb(c, l, ch, n) ==
    LET messages == get_last_messages(ch, maxlen)
    IN  [log |-> update_log(l, ch),
         notified |-> IF messages # <<>> /\ c
                      THEN Append(n, [batch |-> messages, seen |-> l])
                      ELSE n]

Discarded(l, ch) == SeqsOf(l \o ch) \ SeqsOf(update_log(l, ch))

\* ---------------------------------------------------- RobotController (pure)
\* variant: the response search keeps the other entries of the same code
RECURSIVE ScanResponsesKeepOthers(_, _)
ScanResponsesKeepOthers(l, codes) ==
    IF codes = <<>> THEN [found |-> FALSE, code |-> <<>>, log |-> l]
    ELSE LET r == get_last_code_occurance(l, Head(codes), FALSE)
         IN  IF r.msg # NoMsg
             THEN [found |-> TRUE, code |-> Head(codes), log |-> r.log]
             ELSE ScanResponsesKeepOthers(r.log, Tail(codes))

RECURSIVE ScanResponses(_, _)
ScanResponses(l, codes) ==
    IF codes = <<>> THEN [found |-> FALSE, code |-> <<>>, log |-> l]
    ELSE LET r == get_last_code_occurance(l, Head(codes), TRUE)
         IN  IF r.msg # NoMsg
             THEN [found |-> TRUE, code |-> Head(codes), log |-> r.log]
             ELSE ScanResponses(r.log, Tail(codes))

\* found = FALSE stands for the RuntimeError "code ... not found in log"
check_response(l, codes) ==
    IF codes = <<>> THEN [found |-> TRUE, code |-> <<>>, log |-> l]
    ELSE ScanResponses(l, codes)

\* msg # NoMsg stands for the RuntimeError raised with the entry attached
handle_specific_error(l, code) == get_last_code_occurance(l, code, TRUE)

handle_errors(l) == get_last_code_occurance(l, GenericError, FALSE)

Step(op, code) == [op |-> op, code |-> code]

\* the loop `for code in errors_code: handle_specific_error(code)`;
\* steps lists the checks performed until the first one raises
RECURSIVE SpecificErrors(_, _, _)
SpecificErrors(l, codes, done) ==
    IF codes = <<>> THEN [msg |-> NoMsg, log |-> l, steps |-> done]
    ELSE LET r == handle_specific_error(l, Head(codes))
             now == Append(done, Step("specific", Head(codes)))
         IN  IF r.msg # NoMsg THEN [msg |-> r.msg, log |-> r.log, steps |-> now]
             ELSE SpecificErrors(r.log, Tail(codes), now)

Raised(by, e, steps) ==
    [kind |-> "error", by |-> by, msg |-> e.msg, code |-> <<>>, log |-> e.log,
     steps |-> steps]

Answered(l, codes, steps) ==
    LET r == check_response(l, codes)
    IN  [kind |-> IF r.found THEN "ok" ELSE "notfound", by |-> "none",
         msg |-> NoMsg, code |-> r.code, log |-> r.log,
         steps |-> Append(steps, Step("response", <<>>))]

\* variant: the response check runs before the generic check
ResponseThenGeneric(l, codes, steps) ==
    LET a == Answered(l, codes, steps)
        g == handle_errors(l)
    IN  IF a.kind = "ok" THEN a
        ELSE IF g.msg # NoMsg
             THEN Raised("generic", g, Append(a.steps, Step("generic", GenericError)))
             ELSE a

\* the generic check and the response check that follow
GenericThenResponse(l, codes, steps) ==
    LET g == handle_errors(l)
        now == Append(steps, Step("generic", GenericError))
    IN  IF g.msg # NoMsg THEN Raised("generic", g, now)
        ELSE Answered(g.log, codes, now)

\* variant: the generic check runs before the command-specific ones
FirstChecksGenericFirst(l, c) ==
    LET g == handle_errors(l)
        s == SpecificErrors(l, c.errors, <<Step("generic", GenericError)>>)
    IN  IF c.handle_all /\ g.msg # NoMsg
        THEN Raised("generic", g, <<Step("generic", GenericError)>>)
        ELSE IF s.msg # NoMsg THEN Raised("specific", s, s.steps)
        ELSE Answered(s.log, c.responses, s.steps)

\* send_command_handled, the checks after the first post-send refresh
FirstChecks(l, c) ==
    LET s == SpecificErrors(l, c.errors, <<>>)
    IN  IF s.msg # NoMsg THEN Raised("specific", s, s.steps)
        ELSE IF c.handle_all THEN GenericThenResponse(s.log, c.responses, s.steps)
        ELSE Answered(s.log, c.responses, s.steps)

\* send_command_handled, the checks of the except branch
RetryChecks(l, c) == GenericThenResponse(l, c.responses, <<>>)

\* variant: the command is transmitted before the log is polled and cleaned
PreSendSendFirst(c) ==
    <<Step("send", <<>>), Step("poll", <<>>)>>
    \o [i \in 1..Len(c.remove) |-> Step("remove", c.remove[i])]

\* the statements of send_command_handled up to the transmission
PreSend(c) ==
    <<Step("poll", <<>>)>>
    \o [i \in 1..Len(c.remove) |-> Step("remove", c.remove[i])]
    \o <<Step("send", <<>>)>>

\* st = [log, channel, wire, evicted]
Exec(st, s) ==
    CASE s.op = "poll" ->
            [st EXCEPT !.log = update_log(st.log, st.channel),
                       !.channel = <<>>,
                       !.evicted = st.evicted \cup Discarded(st.log, st.channel)]
      [] s.op = "remove" -> [st EXCEPT !.log = remove_all_code(st.log, s.code)]
      [] s.op = "send" -> [st EXCEPT !.wire = st.wire + 1]

RECURSIVE Run(_, _)
Run(st, steps) ==
    IF steps = <<>> THEN st ELSE Run(Exec(st, Head(steps)), Tail(steps))

\* variant: ActivateRobot does not ask to forget 1005
CommandKeepsStale(name) ==
    CASE name = "ActivateRobot" ->
            [remove |-> <<>>, errors |-> <<C1013>>,
             responses |-> <<C2000, C2001>>, handle_all |-> TRUE, method_str |-> "ActivateRobot"]
      [] name = "ResetError" ->
            [remove |-> <<GenericError>>, errors |-> <<C1025>>,
             responses |-> <<C2005, C2006>>, handle_all |-> FALSE, method_str |-> "ResetError"]
      [] name = "SetEOB(0)" ->
            [remove |-> <<>>, errors |-> <<>>,
             responses |-> <<C2055>>, handle_all |-> TRUE, method_str |-> "cmd"]
      [] name = "SetEOB(1)" ->
            [remove |-> <<>>, errors |-> <<>>,
             responses |-> <<C2054>>, handle_all |-> TRUE, method_str |-> "cmd"]
      [] name = "SetEOM(0)" ->
            [remove |-> <<>>, errors |-> <<>>,
             responses |-> <<C2053>>, handle_all |-> TRUE, method_str |-> "cmd"]
      [] name = "SetEOM(1)" ->
            [remove |-> <<>>, errors |-> <<>>,
             responses |-> <<C2052>>, handle_all |-> TRUE, method_str |-> "cmd"]

\* the arguments each request command passes to send_command_handled
Command(name) ==
    CASE name = "ActivateRobot" ->
            [remove |-> <<C1005>>, errors |-> <<C1013>>,
             responses |-> <<C2000, C2001>>, handle_all |-> TRUE, method_str |-> "ActivateRobot"]
      [] name = "ResetError" ->
            [remove |-> <<GenericError>>, errors |-> <<C1025>>,
             responses |-> <<C2005, C2006>>, handle_all |-> FALSE, method_str |-> "ResetError"]
      [] name = "SetEOB(0)" ->
            [remove |-> <<>>, errors |-> <<>>,
             responses |-> <<C2055>>, handle_all |-> TRUE, method_str |-> "cmd"]
      [] name = "SetEOB(1)" ->
            [remove |-> <<>>, errors |-> <<>>,
             responses |-> <<C2054>>, handle_all |-> TRUE, method_str |-> "cmd"]
      [] name = "SetEOM(0)" ->
            [remove |-> <<>>, errors |-> <<>>,
             responses |-> <<C2053>>, handle_all |-> TRUE, method_str |-> "cmd"]
      [] name = "SetEOM(1)" ->
            [remove |-> <<>>, errors |-> <<>>,
             responses |-> <<C2052>>, handle_all |-> TRUE, method_str |-> "cmd"]

VerifiedCmds == {"ActivateRobot", "ResetError"}
ToggleCmds == {"SetEOB(0)", "SetEOB(1)", "SetEOM(0)", "SetEOM(1)"}
MotionCmds == {"MoveJoints", "SetBlending"}
MaxBlending == 100
NumJoints == 6
JointCounts == {NumJoints - 1, NumJoints, NumJoints + 1}

\* --------------------------------------------------------------- behaviour
Init ==
    /\ log = <<>>
    /\ channel = <<>>
    /\ emitted = 0
    /\ pc = "idle"
    /\ cmd = "none"
    /\ calls = 0
    /\ wire = 0
    /\ trace = <<>>
    /\ outcome = "none"
    /\ reported = NoMsg
    /\ reportedBy = "none"
    /\ matched = <<>>
    /\ chkLogs = <<>>
    /\ startLog = <<>>
    /\ evicted = {}
    /\ motionErr = {}
    /\ maxlen = LogSize
    /\ result = NoMsg
    /\ EOB = 1
    /\ EOM = 1
    /\ callers = <<>>
    /\ arg = 0
    /\ error = FALSE
    /\ cb = FALSE
    /\ notified = <<>>
    /\ bytes = <<>>
    /\ socket = TRUE
    /\ logId = 1
    /\ born = 0
    /\ blamed = "none"

\* one more frame, of one of the given codes, reaches the socket
Emit(codes) ==
    /\ emitted < MaxFrames
    /\ \E c \in codes :
          channel' = Append(channel, [code |-> c, payload |-> 0, seq |-> emitted + 1])
    /\ emitted' = emitted + 1

\* the robot sends one more frame
RobotEmit ==
    /\ Emit(RobotCodes)
    /\ UNCHANGED <<log, pc, cmd, calls, wire, trace, outcome, reported,
                   reportedBy, matched, chkLogs, startLog, evicted, motionErr>>
    /\ UNCHANGED <<ext, arg, blamed>>

\* a request command enters send_command_handled: non-blocking refresh,
\* removal of the codes to forget, transmission
Enter(name) ==
    /\ calls' = calls + 1
    /\ LET st == Run([log |-> log, channel |-> channel, wire |-> 0,
                      evicted |-> evicted], PreSend(Command(name)))
       IN  /\ cmd' = name
           /\ log' = st.log
           /\ channel' = st.channel
           /\ wire' = st.wire
           /\ evicted' = st.evicted
           /\ trace' = PreSend(Command(name))
    /\ startLog' = update_log(log, channel)
    /\ pc' = "wait1"
    /\ outcome' = "none"
    /\ reported' = NoMsg
    /\ reportedBy' = "none"
    /\ matched' = <<>>
    /\ chkLogs' = <<>>
    /\ motionErr' = IF cmd \in MotionCmds THEN motionErr ELSE {}
    /\ UNCHANGED emitted
    /\ blamed' = "none"
    /\ UNCHANGED ext

\* ActivateRobot() or ResetError() is called
Begin ==
    /\ pc = "idle"
    /\ calls < MaxCalls
    /\ \E name \in VerifiedCmds : Enter(name)
    /\ arg' = 0

\* what both attempts do with the result r of their checks on the refreshed log l
Conclude(l, r, retryPc) ==
    /\ log' = r.log
    /\ evicted' = evicted \cup Discarded(log, channel)
    /\ channel' = <<>>
    /\ chkLogs' = Append(chkLogs, l)
    /\ trace' = trace \o <<Step("refresh", <<>>)>> \o r.steps
    /\ reported' = r.msg
    /\ reportedBy' = r.by
    /\ matched' = r.code
    /\ IF r.kind = "notfound" /\ retryPc # "idle"
       THEN pc' = retryPc /\ outcome' = "none"
       ELSE /\ outcome' = r.kind
            /\ pc' = IF r.kind = "ok" /\ cmd = "ResetError" THEN "tail" ELSE "idle"
    /\ blamed' = IF outcome' \in {"error", "notfound"}
                 THEN Command(cmd).method_str ELSE "none"
    /\ UNCHANGED <<emitted, cmd, calls, wire, startLog, motionErr>>
    /\ UNCHANGED <<ext, arg>>

\* variant: the first attempt gives up when the response is missing
FirstAttemptNoRetry ==
    /\ pc = "wait1"
    /\ WaitReturns(TRUE, "None", channel)
    /\ LET l == update_log(log, channel)
       IN  Conclude(l, FirstChecks(l, Command(cmd)), "idle")

\* variant: a response missing at the retry is waited for again
RetryAgain ==
    /\ pc = "wait2"
    /\ WaitReturns(TRUE, "None", channel)
    /\ LET l == update_log(log, channel)
       IN  Conclude(l, RetryChecks(l, Command(cmd)), "wait2")

\* the blocking refresh after the transmission and the first checks
\* (the request commands pass wait_for_new_messages=True, timeout=None)
FirstAttempt ==
    /\ pc = "wait1"
    /\ WaitReturns(TRUE, "None", channel)
    /\ LET l == update_log(log, channel)
       IN  Conclude(l, FirstChecks(l, Command(cmd)), "wait2")

\* variant: the except branch transmits the command again before it refreshes
RetryResending ==
    /\ pc = "wait2"
    /\ WaitReturns(TRUE, "None", channel)
    /\ LET l == update_log(log, channel)
           r == RetryChecks(l, Command(cmd))
       IN  /\ log' = r.log
           /\ chkLogs' = Append(chkLogs, l)
           /\ trace' = trace \o <<Step("send", <<>>), Step("refresh", <<>>)>>
                             \o r.steps
           /\ reported' = r.msg
           /\ reportedBy' = r.by
           /\ matched' = r.code
           /\ outcome' = r.kind
           /\ pc' = IF r.kind = "ok" /\ cmd = "ResetError" THEN "tail" ELSE "idle"
    /\ wire' = wire + 1
    /\ evicted' = evicted \cup Discarded(log, channel)
    /\ channel' = <<>>
    /\ blamed' = IF outcome' \in {"error", "notfound"}
                 THEN Command(cmd).method_str ELSE "none"
    /\ UNCHANGED <<emitted, cmd, calls, startLog, motionErr>>
    /\ UNCHANGED <<ext, arg>>

\* the except branch: refresh again, check again
Retry ==
    /\ pc = "wait2"
    /\ WaitReturns(TRUE, "None", channel)
    /\ LET l == update_log(log, channel)
       IN  Conclude(l, RetryChecks(l, Command(cmd)), "idle")

\* variant: ResetError ends with the poll alone
ResetErrorTailPollOnly ==
    /\ pc = "tail"
    /\ log' = update_log(log, channel)
    /\ evicted' = evicted \cup Discarded(log, channel)
    /\ channel' = <<>>
    /\ trace' = trace \o <<Step("poll", <<>>)>>
    /\ pc' = "idle"
    /\ UNCHANGED <<emitted, cmd, calls, wire, outcome, reported, reportedBy,
                   matched, chkLogs, startLog, motionErr>>
    /\ UNCHANGED <<ext, arg, blamed>>

\* ResetError after send_command_handled returned: poll, forget every error
ResetErrorTail ==
    /\ pc = "tail"
    /\ log' = remove_all_code(update_log(log, channel), GenericError)
    /\ evicted' = evicted \cup Discarded(log, channel)
    /\ channel' = <<>>
    /\ trace' = trace \o <<Step("poll", <<>>), Step("remove", GenericError)>>
    /\ pc' = "idle"
    /\ UNCHANGED <<emitted, cmd, calls, wire, outcome, reported, reportedBy,
                   matched, chkLogs, startLog, motionErr>>
    /\ UNCHANGED <<ext, arg, blamed>>

\* MoveJoints(joints) up to and including the transmission
MoveJoints ==
    /\ pc = "idle"
    /\ calls < MaxCalls
    /\ calls' = calls + 1
    /\ cmd' = "MoveJoints"
    /\ \E n \in JointCounts :
          /\ arg' = n
          /\ IF n # NumJoints
             THEN /\ outcome' = "validation"
                  /\ pc' = "idle"
                  /\ wire' = 0
                  /\ trace' = <<>>
             ELSE /\ outcome' = "none"
                  /\ pc' = "mwait"
                  /\ wire' = 1
                  /\ trace' = <<Step("send", <<>>)>>
    /\ reported' = NoMsg
    /\ reportedBy' = "none"
    /\ matched' = <<>>
    /\ chkLogs' = <<>>
    /\ startLog' = log
    /\ motionErr' = {}
    /\ UNCHANGED <<log, channel, emitted, evicted>>
    /\ blamed' = "none"
    /\ UNCHANGED ext

\* variant: the motion refresh is given no timeout
MotionRefreshBlocking ==
    /\ pc = "mwait"
    /\ WaitReturns(TRUE, "None", channel)
    /\ log' = update_log(log, channel)
    /\ evicted' = evicted \cup Discarded(log, channel)
    /\ channel' = <<>>
    /\ trace' = Append(trace, Step("refresh", <<>>))
    /\ outcome' = "ok"
    /\ pc' = "idle"
    /\ motionErr' = {log'[i] : i \in {j \in 1..Len(log') :
                                        StartsWith(log'[j].code, GenericError)}}
    /\ UNCHANGED <<emitted, cmd, calls, wire, reported, reportedBy, matched,
                   chkLogs, startLog>>
    /\ UNCHANGED <<ext, arg, blamed>>

\* variant: a wait that times out raises
MotionRefreshRaises ==
    /\ pc = "mwait"
    /\ WaitReturns(TRUE, "motion_commands_response_timeout", channel)
    /\ log' = update_log(log, channel)
    /\ evicted' = evicted \cup Discarded(log, channel)
    /\ channel' = <<>>
    /\ trace' = Append(trace, Step("refresh", <<>>))
    /\ outcome' = IF channel = <<>> THEN "transport" ELSE "ok"
    /\ pc' = "idle"
    /\ motionErr' = {log'[i] : i \in {j \in 1..Len(log') :
                                        StartsWith(log'[j].code, GenericError)}}
    /\ UNCHANGED <<emitted, cmd, calls, wire, reported, reportedBy, matched,
                   chkLogs, startLog>>
    /\ UNCHANGED <<ext, arg, blamed>>

\* variant: the motion refresh is followed by the generic error check
MotionRefreshChecked ==
    /\ pc = "mwait"
    /\ LET e == handle_errors(update_log(log, channel))
       IN  /\ log' = e.log
           /\ reported' = e.msg
           /\ reportedBy' = IF e.msg # NoMsg THEN "generic" ELSE "none"
           /\ outcome' = IF e.msg # NoMsg THEN "error" ELSE "ok"
    /\ evicted' = evicted \cup Discarded(log, channel)
    /\ channel' = <<>>
    /\ trace' = trace \o <<Step("refresh", <<>>), Step("generic", GenericError)>>
    /\ pc' = "idle"
    /\ motionErr' = {log'[i] : i \in {j \in 1..Len(log') :
                                        StartsWith(log'[j].code, GenericError)}}
    /\ UNCHANGED <<emitted, cmd, calls, wire, matched, chkLogs, startLog>>
    /\ UNCHANGED <<ext, arg, blamed>>

\* update_log_for_motion_commands: a refresh that waits at most
\* motion_commands_response_timeout, then the command returns
MotionRefresh ==
    /\ pc = "mwait"
    /\ WaitReturns(TRUE, "motion_commands_response_timeout", channel)
    /\ log' = update_log(log, channel)
    /\ evicted' = evicted \cup Discarded(log, channel)
    /\ channel' = <<>>
    /\ trace' = Append(trace, Step("refresh", <<>>))
    /\ outcome' = "ok"
    /\ pc' = "idle"
    /\ motionErr' = {log'[i] : i \in {j \in 1..Len(log') :
                                        StartsWith(log'[j].code, GenericError)}}
    /\ UNCHANGED <<emitted, cmd, calls, wire, reported, reportedBy, matched,
                   chkLogs, startLog>>
    /\ UNCHANGED <<ext, arg, blamed>>

\* the robot sends one more frame where the toggles are exercised
RobotEmitToggle ==
    /\ Emit(ToggleCodes)
    /\ UNCHANGED <<log, pc, cmd, calls, wire, trace, outcome, reported,
                   reportedBy, matched, chkLogs, startLog, evicted, motionErr>>
    /\ UNCHANGED <<ext, arg, blamed>>

\* raise ValueError: the command ends before anything else is done
Rejected(name) ==
    /\ calls' = calls + 1
    /\ cmd' = name
    /\ outcome' = "validation"
    /\ pc' = "idle"
    /\ wire' = 0
    /\ trace' = <<>>
    /\ reported' = NoMsg
    /\ reportedBy' = "none"
    /\ matched' = <<>>
    /\ chkLogs' = <<>>
    /\ startLog' = log
    /\ motionErr' = {}
    /\ UNCHANGED <<log, channel, emitted, evicted>>
    /\ blamed' = "none"
    /\ UNCHANGED ext

ToggleInputs == {0, 1, 2}

\* SetEOB(e)
SetEOB ==
    /\ pc = "idle"
    /\ calls < MaxCalls
    /\ \E e \in ToggleInputs :
          /\ arg' = e
          /\ IF e = 0 THEN Enter("SetEOB(0)")
             ELSE IF e = 1 THEN Enter("SetEOB(1)")
             ELSE Rejected("SetEOB")

\* SetEOM(e)
SetEOM ==
    /\ pc = "idle"
    /\ calls < MaxCalls
    /\ \E e \in ToggleInputs :
          /\ arg' = e
          /\ IF e = 0 THEN Enter("SetEOM(0)")
             ELSE IF e = 1 THEN Enter("SetEOM(1)")
             ELSE Rejected("SetEOM")

\* a motion command whose arguments were accepted transmits and goes on to
\* update_log_for_motion_commands
Transmitted(name) ==
    /\ calls' = calls + 1
    /\ cmd' = name
    /\ outcome' = "none"
    /\ pc' = "mwait"
    /\ wire' = 1
    /\ trace' = <<Step("send", <<>>)>>
    /\ reported' = NoMsg
    /\ reportedBy' = "none"
    /\ matched' = <<>>
    /\ chkLogs' = <<>>
    /\ startLog' = log
    /\ motionErr' = {}
    /\ UNCHANGED <<log, channel, emitted, evicted>>
    /\ blamed' = "none"
    /\ UNCHANGED ext

BlendingInputs == {0 - 1, 0, 1, MaxBlending, MaxBlending + 1, MaxBlending + 50}

\* variant: SetBlending transmits whatever p it is given
SetBlendingUnchecked ==
    /\ pc = "idle"
    /\ calls < MaxCalls
    /\ \E p \in BlendingInputs :
          /\ arg' = p
          /\ Transmitted("SetBlending")

\* SetBlending(p) up to and including the transmission
SetBlending ==
    /\ pc = "idle"
    /\ calls < MaxCalls
    /\ \E p \in BlendingInputs :
          /\ arg' = p
          /\ IF ~(p >= 0 /\ p <= MaxBlending)
             THEN Rejected("SetBlending")
             ELSE Transmitted("SetBlending")

Next ==
    \/ RobotEmit
    \/ Begin
    \/ FirstAttempt
    \/ Retry
    \/ ResetErrorTail
    \/ MoveJoints
    \/ MotionRefresh

Spec == Init /\ [][Next]_vars

\* the caller's thread keeps running: a step of the command in progress that
\* can be taken is eventually taken; nothing obliges the robot to send
SpecLive ==
    Spec /\ WF_vars(FirstAttempt \/ Retry \/ ResetErrorTail \/ MotionRefresh)

\* ------------------------------------------------ a socket that can fail
\* the poll that opens send_command_handled raises: nothing was removed,
\* nothing sent
PollFails ==
    /\ pc = "idle"
    /\ calls < MaxCalls
    /\ calls' = calls + 1
    /\ \E name \in VerifiedCmds : cmd' = name
    /\ arg' = 0
    /\ outcome' = "transport"
    /\ pc' = "idle"
    /\ wire' = 0
    /\ trace' = <<Step("poll", <<>>)>>
    /\ reported' = NoMsg
    /\ reportedBy' = "none"
    /\ matched' = <<>>
    /\ chkLogs' = <<>>
    /\ startLog' = log
    /\ motionErr' = IF cmd \in MotionCmds THEN motionErr ELSE {}
    /\ blamed' = "none"
    /\ UNCHANGED <<log, channel, emitted, evicted>>
    /\ UNCHANGED ext

\* variant: the frames read so far are merged before the error leaves update_log
RefreshFailsAfterMerge ==
    /\ pc \in {"wait1", "wait2"}
    /\ log' = update_log(log, channel)
    /\ evicted' = evicted \cup Discarded(log, channel)
    /\ channel' = <<>>
    /\ outcome' = "transport"
    /\ pc' = "idle"
    /\ trace' = Append(trace, Step("refresh", <<>>))
    /\ UNCHANGED <<emitted, cmd, calls, wire, reported, reportedBy,
                   matched, chkLogs, startLog, motionErr>>
    /\ UNCHANGED <<ext, arg, blamed>>

\* a refresh after the transmission raises inside update_log, before the
\* log is touched; send_command_handled catches nothing there
RefreshFails ==
    /\ pc \in {"wait1", "wait2"}
    /\ outcome' = "transport"
    /\ pc' = "idle"
    /\ trace' = Append(trace, Step("refresh", <<>>))
    /\ UNCHANGED <<log, channel, emitted, cmd, calls, wire, reported, reportedBy,
                   matched, chkLogs, startLog, evicted, motionErr>>
    /\ UNCHANGED <<ext, arg, blamed>>

NextTransport ==
    \/ RobotEmit
    \/ Begin
    \/ FirstAttempt
    \/ Retry
    \/ ResetErrorTail
    \/ PollFails
    \/ RefreshFails

SpecTransport == Init /\ [][NextTransport]_vars

\* ------------------------------------------------ acceleration limits
MaxAcc == 100
AccInputs == {0 - 3, 0, 1, 2, MaxAcc, MaxAcc + 1}

\* SetCartAcc(p) up to and including the transmission
SetCartAcc ==
    /\ pc = "idle"
    /\ calls < MaxCalls
    /\ \E p \in AccInputs :
          /\ arg' = p
          /\ IF ~(p > 1 /\ p <= MaxAcc)
             THEN Rejected("SetCartAcc")
             ELSE Transmitted("SetCartAcc")

\* SetJointAcc(p) up to and including the transmission
SetJointAcc ==
    /\ pc = "idle"
    /\ calls < MaxCalls
    /\ \E p \in AccInputs :
          /\ arg' = p
          /\ IF ~(p >= 1 /\ p <= MaxAcc)
             THEN Rejected("SetJointAcc")
             ELSE Transmitted("SetJointAcc")

NextAcc ==
    \/ RobotEmit
    \/ SetCartAcc
    \/ SetJointAcc
    \/ MotionRefresh

SpecAcc == Init /\ [][NextAcc]_vars

\* ------------------------------------------------ wire encoding
\* a text is a sequence of tokens: the command name, one token per further
\* character, NUL for the null byte
MaxArgs == 2
NUL == "NUL"
DigitChars == <<"0", "1", "2", "3", "4", "5", "6", "7", "8", "9">>
WireNames == {"ActivateRobot", "SetEOB", "MovePose"}
ArgValues == {0, 1, -5, 12, 100}

RECURSIVE ArgLists(_)
ArgLists(n) ==
    IF n = 0 THEN {<<>>}
    ELSE ArgLists(n - 1) \cup
         {Append(a, v) : a \in {b \in ArgLists(n - 1) : Len(b) = n - 1},
                         v \in ArgValues}

RECURSIVE Digits(_)
Digits(n) ==
    IF n < 10 THEN <<DigitChars[n + 1]>>
    ELSE Append(Digits(n \div 10), DigitChars[(n % 10) + 1])

\* str(x) of an integer
str(n) == IF n < 0 THEN <<"-">> \o Digits(-n) ELSE Digits(n)

RECURSIVE EachThenComma(_)
EachThenComma(arg_list) ==
    IF arg_list = <<>> THEN <<>>
    ELSE str(Head(arg_list)) \o <<",">> \o EachThenComma(Tail(arg_list))

\* variant: the loop runs over every argument, the last included
buildCommandTrailingComma(command, arg_list) ==
    IF Len(arg_list) # 0
    THEN <<command, "(">> \o EachThenComma(arg_list) \o <<")">>
    ELSE <<command>>

\* MecademicRobot._buildCommand: the loop over all arguments but the last,
\* then the last one and the closing parenthesis
buildCommand(command, arg_list) ==
    IF Len(arg_list) # 0
    THEN <<command, "(">>
            \o EachThenComma(SubSeq(arg_list, 1, Len(arg_list) - 1))
            \o str(arg_list[Len(arg_list)]) \o <<")">>
    ELSE <<command>>

RECURSIVE CommaSeparated(_)
CommaSeparated(args) ==
    IF Len(args) = 1 THEN str(args[1])
    ELSE str(Head(args)) \o <<",">> \o CommaSeparated(Tail(args))

\* parsingLib.build_command(name, args)
build_command(name, args) ==
    IF args = <<>> THEN <<name>>
    ELSE <<name, "(">> \o CommaSeparated(args) \o <<")">>

\* variant: the text is sent as it is
send_string_command_bare(command) == command

\* RobotController.send_string_command: cmd + '\0', sent whole by sendall
send_string_command(command) == Append(command, NUL)

\* MecademicRobot._send: cmd + '\0'
legacy_send(command) == Append(command, NUL)

\* a RobotController command method builds its text and sends it
SendCommand ==
    /\ \E name \in WireNames, args \in ArgLists(MaxArgs) :
          /\ cmd' = name
          /\ trace' = <<Step("send", args)>>
          /\ bytes' = send_string_command(build_command(name, args))
    /\ wire' = 1
    /\ UNCHANGED <<log, channel, emitted, pc, calls, outcome, reported,
                   reportedBy, matched, chkLogs, startLog, evicted,
                   motionErr, maxlen, result, EOB, EOM, callers, arg, error,
                   cb, notified, link, blamed>>

\* a MecademicRobot command method builds its text and sends it
LegacySend ==
    /\ socket
    /\ ~error
    /\ \E name \in WireNames, args \in ArgLists(MaxArgs) :
          /\ cmd' = name
          /\ trace' = <<Step("_send", args)>>
          /\ bytes' = legacy_send(buildCommand(name, args))
    /\ wire' = 1
    /\ UNCHANGED <<log, channel, emitted, pc, calls, outcome, reported,
                   reportedBy, matched, chkLogs, startLog, evicted,
                   motionErr, maxlen, result, EOB, EOM, callers, arg, error,
                   cb, notified, link, blamed>>

NextWire ==
    \/ SendCommand
    \/ LegacySend

SpecWire == Init /\ [][NextWire]_vars

\* ------------------------------------------------ connect and disconnect
\* what the robot sends on a fresh connection in the model
ConnCodes == {C3000, C3001, C1005, C3004}

connkeep == <<wire, matched, chkLogs, startLog, motionErr, maxlen, result,
              EOB, EOM, callers, error, hook, arg>>

\* RobotController(): neither socket nor log
InitConn ==
    /\ log = <<>>
    /\ channel = <<>>
    /\ emitted = 0
    /\ pc = "idle"
    /\ cmd = "none"
    /\ calls = 0
    /\ wire = 0
    /\ trace = <<>>
    /\ outcome = "none"
    /\ reported = NoMsg
    /\ reportedBy = "none"
    /\ matched = <<>>
    /\ chkLogs = <<>>
    /\ startLog = <<>>
    /\ evicted = {}
    /\ motionErr = {}
    /\ maxlen = LogSize
    /\ result = NoMsg
    /\ EOB = 1
    /\ EOM = 1
    /\ callers = <<>>
    /\ arg = 0
    /\ error = FALSE
    /\ cb = FALSE
    /\ notified = <<>>
    /\ bytes = <<>>
    /\ socket = FALSE
    /\ logId = 0
    /\ born = -1
    /\ blamed = "none"

\* the robot sends a frame on the established connection
RobotEmitConn ==
    /\ born >= 0
    /\ Emit(ConnCodes)
    /\ UNCHANGED <<log, pc, cmd, calls, trace, outcome, reported, reportedBy,
                   evicted, link, blamed>>
    /\ UNCHANGED connkeep

\* connect() with self.socket set: `return #already conencted`
connectAlready ==
    /\ pc = "idle"
    /\ calls < MaxCalls
    /\ socket
    /\ calls' = calls + 1
    /\ cmd' = "connect"
    /\ trace' = <<Step("connect", <<>>)>>
    /\ outcome' = "ok"
    /\ reported' = NoMsg
    /\ reportedBy' = "none"
    /\ blamed' = "none"
    /\ UNCHANGED <<log, channel, emitted, pc, evicted, link>>
    /\ UNCHANGED connkeep

\* connect() whose socket.connect raises: self.socket was assigned before
connectRefused ==
    /\ pc = "idle"
    /\ calls < MaxCalls
    /\ ~socket
    /\ calls' = calls + 1
    /\ cmd' = "connect"
    /\ trace' = <<Step("connect", <<>>)>>
    /\ socket' = TRUE
    /\ outcome' = "transport"
    /\ reported' = NoMsg
    /\ reportedBy' = "none"
    /\ blamed' = "none"
    /\ UNCHANGED <<log, channel, emitted, pc, evicted, logId, born>>
    /\ UNCHANGED connkeep

\* connect() up to its blocking refresh: a new socket, a new MecademicLog
connect ==
    /\ pc = "idle"
    /\ calls < MaxCalls
    /\ ~socket
    /\ calls' = calls + 1
    /\ cmd' = "connect"
    /\ trace' = <<Step("connect", <<>>)>>
    /\ socket' = TRUE
    /\ logId' = logId + 1
    /\ born' = emitted
    /\ log' = <<>>
    /\ channel' = <<>>
    /\ pc' = "cwait"
    /\ outcome' = "none"
    /\ reported' = NoMsg
    /\ reportedBy' = "none"
    /\ blamed' = "none"
    /\ UNCHANGED <<emitted, evicted>>
    /\ UNCHANGED connkeep

\* the rest of connect(): the refresh returns, then handle_specific_error
\* ("3001"), handle_errors, check_response(["3000"])
connectChecks ==
    /\ pc = "cwait"
    /\ WaitReturns(TRUE, "None", channel)
    /\ LET l1 == update_log(log, channel)
           s == handle_specific_error(l1, C3001)
           g == handle_errors(s.log)
           r == check_response(g.log, <<C3000>>)
       IN  IF s.msg # NoMsg
           THEN /\ log' = s.log
                /\ outcome' = "error"
                /\ reported' = s.msg
                /\ reportedBy' = "specific"
                /\ blamed' = "connect"
           ELSE IF g.msg # NoMsg
           THEN /\ log' = g.log
                /\ outcome' = "error"
                /\ reported' = g.msg
                /\ reportedBy' = "generic"
                /\ blamed' = "connect"
           ELSE /\ log' = r.log
                /\ outcome' = IF r.found THEN "ok" ELSE "notfound"
                /\ reported' = NoMsg
                /\ reportedBy' = "none"
                /\ blamed' = IF r.found THEN "none" ELSE "check_reconnectsponse"
    /\ evicted' = evicted \cup Discarded(log, channel)
    /\ channel' = <<>>
    /\ pc' = "idle"
    /\ trace' = Append(trace, Step("refresh", <<>>))
    /\ UNCHANGED <<emitted, cmd, calls, link>>
    /\ UNCHANGED connkeep

\* disconnect(): closes the socket and forgets it, nothing else
disconnect ==
    /\ pc = "idle"
    /\ cmd' = "disconnect"
    /\ trace' = <<Step("disconnect", <<>>)>>
    /\ socket' = FALSE
    /\ born' = -1
    /\ channel' = IF socket THEN <<>> ELSE channel
    /\ outcome' = "ok"
    /\ reported' = NoMsg
    /\ reportedBy' = "none"
    /\ blamed' = "none"
    /\ UNCHANGED <<log, logId, emitted, pc, calls, evicted>>
    /\ UNCHANGED connkeep

NextConn ==
    \/ RobotEmitConn
    \/ connectAlready
    \/ connectRefused
    \/ connect
    \/ connectChecks
    \/ disconnect

SpecConn == InitConn /\ [][NextConn]_vars

\* ------------------------------------------------ status and pose queries
QueryCmds == {"GetStatusRobot", "GetConf"}
QueryCodes == {C1005, C2007, C2029}

\* the code each query looks for
QueryCode(name) == IF name = "GetStatusRobot" THEN C2007 ELSE C2029

\* what follows the refresh of a query and precedes its search:
\* GetConf calls handle_errors, GetStatusRobot calls nothing
QueryErrors(name, l) ==
    IF name = "GetConf" THEN handle_errors(l) ELSE [msg |-> NoMsg, log |-> l]

\* the robot sends one more frame where the queries are exercised
RobotEmitQuery ==
    /\ Emit(QueryCodes)
    /\ UNCHANGED <<log, pc, cmd, calls, wire, trace, outcome, reported,
                   reportedBy, matched, chkLogs, startLog, evicted, motionErr>>
    /\ UNCHANGED <<ext, arg, blamed>>

\* a query up to and including its first transmission
Ask(name) ==
    /\ calls' = calls + 1
    /\ cmd' = name
    /\ arg' = 0
    /\ wire' = 1
    /\ trace' = <<Step("send", <<>>)>>
    /\ outcome' = "none"
    /\ pc' = "qwait1"
    /\ reported' = NoMsg
    /\ reportedBy' = "none"
    /\ matched' = <<>>
    /\ chkLogs' = <<>>
    /\ startLog' = log
    /\ motionErr' = {}
    /\ result' = NoMsg
    /\ UNCHANGED <<log, channel, emitted, evicted>>
    /\ blamed' = "none"
    /\ UNCHANGED <<maxlen, EOB, EOM, callers, error, link, hook>>

GetStatusRobot ==
    /\ pc = "idle"
    /\ calls < MaxCalls
    /\ Ask("GetStatusRobot")

GetConf ==
    /\ pc = "idle"
    /\ calls < MaxCalls
    /\ Ask("GetConf")

\* the rest of one pass of a query: the refresh without timeout, the error
\* check of GetConf, the search, and then the return, the retry (which
\* transmits again) or msg[1] on None
Reply(retry) ==
    /\ WaitReturns(TRUE, "None", channel)
    /\ LET l1 == update_log(log, channel)
           e == QueryErrors(cmd, l1)
           r == get_last_code_occurance(e.log, QueryCode(cmd), TRUE)
       IN  /\ chkLogs' = Append(chkLogs, l1)
           /\ IF e.msg # NoMsg
              THEN /\ log' = e.log
                   /\ reported' = e.msg
                   /\ reportedBy' = "generic"
                   /\ outcome' = "error"
                   /\ pc' = "idle"
                   /\ UNCHANGED <<wire, result, matched>>
                   /\ trace' = trace \o <<Step("refresh", <<>>),
                                          Step("generic", GenericError)>>
              ELSE /\ log' = r.log
                   /\ UNCHANGED <<reported, reportedBy>>
                   /\ result' = r.msg
                   /\ matched' = IF r.msg # NoMsg THEN QueryCode(cmd) ELSE <<>>
                   /\ outcome' = IF r.msg # NoMsg THEN "ok"
                                 ELSE IF retry THEN "none" ELSE "typeerror"
                   /\ pc' = IF r.msg = NoMsg /\ retry THEN "qwait2" ELSE "idle"
                   /\ wire' = IF r.msg = NoMsg /\ retry THEN wire + 1 ELSE wire
                   /\ trace' = trace \o
                         (<<Step("refresh", <<>>)>> \o
                          (IF cmd = "GetConf"
                           THEN <<Step("generic", GenericError)>> ELSE <<>>) \o
                          <<Step("response", QueryCode(cmd))>> \o
                          (IF r.msg = NoMsg /\ retry
                           THEN <<Step("send", <<>>)>> ELSE <<>>))
    /\ evicted' = evicted \cup Discarded(log, channel)
    /\ channel' = <<>>
    /\ UNCHANGED <<emitted, cmd, calls, startLog, motionErr>>
    /\ blamed' = IF outcome' = "error" THEN cmd ELSE "none"
    /\ UNCHANGED <<maxlen, EOB, EOM, callers, arg, error, link, hook>>

\* the pass with retry=True
QueryFirst == pc = "qwait1" /\ Reply(TRUE)

\* the pass with retry=False
QueryRetry == pc = "qwait2" /\ Reply(FALSE)

NextQuery ==
    \/ RobotEmitQuery
    \/ GetStatusRobot
    \/ GetConf
    \/ QueryFirst
    \/ QueryRetry

SpecQuery == Init /\ [][NextQuery]_vars

\* verified commands and queries on one dispatcher
CountCodes == {C1005, C2000, C2005, C2007, C2029}

RobotEmitCount ==
    /\ Emit(CountCodes)
    /\ UNCHANGED <<log, pc, cmd, calls, wire, trace, outcome, reported,
                   reportedBy, matched, chkLogs, startLog, evicted, motionErr>>
    /\ UNCHANGED <<ext, arg, blamed>>

NextCount ==
    \/ RobotEmitCount
    \/ Begin
    \/ FirstAttempt
    \/ Retry
    \/ ResetErrorTail
    \/ GetStatusRobot
    \/ GetConf
    \/ QueryFirst
    \/ QueryRetry

SpecCount == Init /\ [][NextCount]_vars

\* ------------------------------------------- MecademicRobot (legacy client)
LegacyErrors == {C1005}
LegacyCodes == LegacyErrors \cup {C2052, C2053, C2054, C2055}

\* _getAnswerList
_getAnswerList(name) ==
    IF name = "SetEOB" THEN {C2054, C2055} ELSE {C2052, C2053}

\* _response_contains over what recv delivered
_response_contains(ch, codes) == \E i \in 1..Len(ch) : ch[i].code \in codes

\* the robot sends one more frame to the legacy client
RobotEmitLegacy ==
    /\ Emit(LegacyCodes)
    /\ UNCHANGED <<log, pc, cmd, calls, wire, trace, outcome, reported,
                   reportedBy, matched, chkLogs, startLog, evicted, motionErr>>
    /\ UNCHANGED <<ext, arg, blamed>>

\* exchangeMsg up to the end of _send: nothing is sent while self.error
exchangeMsg(name) ==
    /\ calls' = calls + 1
    /\ cmd' = name
    /\ wire' = IF error THEN 0 ELSE 1
    /\ trace' = IF error THEN <<>> ELSE <<Step("send", <<>>)>>
    /\ pc' = IF error THEN "idle" ELSE "lwait"
    /\ outcome' = IF error THEN "notfound" ELSE "none"
    /\ reported' = NoMsg
    /\ reportedBy' = "none"
    /\ matched' = <<>>
    /\ chkLogs' = <<>>
    /\ startLog' = log
    /\ motionErr' = {}
    /\ UNCHANGED <<log, channel, emitted, evicted>>
    /\ blamed' = "none"
    /\ UNCHANGED <<maxlen, result, callers, error, link, hook>>

\* MecademicRobot.SetEOB(e)
LegacySetEOB ==
    /\ pc = "idle"
    /\ calls < MaxCalls
    /\ \E e \in ToggleInputs :
          /\ arg' = e
          /\ EOB' = IF e = 1 THEN 1 ELSE 0
    /\ UNCHANGED EOM
    /\ exchangeMsg("SetEOB")

\* MecademicRobot.SetEOM(e)
LegacySetEOM ==
    /\ pc = "idle"
    /\ calls < MaxCalls
    /\ \E e \in ToggleInputs :
          /\ arg' = e
          /\ EOM' = IF e = 1 THEN 1 ELSE 0
    /\ UNCHANGED EOB
    /\ exchangeMsg("SetEOM")

\* one recv of _receive that delivers data: the loop ends when an expected
\* code or an error code is in it
LegacyReceive ==
    /\ pc = "lwait"
    /\ channel # <<>>
    /\ LET response_found == _response_contains(channel, _getAnswerList(cmd))
           error_found == _response_contains(channel, LegacyErrors)
       IN  /\ error' = (error \/ error_found)
           /\ pc' = IF response_found \/ error_found THEN "idle" ELSE "lwait"
           /\ outcome' = IF response_found THEN "ok"
                         ELSE IF error_found THEN "error" ELSE "none"
    /\ channel' = <<>>
    /\ trace' = Append(trace, Step("recv", <<>>))
    /\ UNCHANGED <<log, emitted, cmd, calls, wire, reported, reportedBy,
                   matched, chkLogs, startLog, evicted, motionErr>>
    /\ UNCHANGED <<maxlen, result, EOB, EOM, callers, arg, blamed, link, hook>>

\* socket.timeout in _receive: exchangeMsg returns None
LegacyTimeout ==
    /\ pc = "lwait"
    /\ channel = <<>>
    /\ pc' = "idle"
    /\ outcome' = "notfound"
    /\ trace' = Append(trace, Step("timeout", <<>>))
    /\ UNCHANGED <<log, channel, emitted, cmd, calls, wire, reported,
                   reportedBy, matched, chkLogs, startLog, evicted, motionErr>>
    /\ UNCHANGED <<ext, arg, blamed>>

NextLegacy ==
    \/ RobotEmitLegacy
    \/ LegacySetEOB
    \/ LegacySetEOM
    \/ LegacyReceive
    \/ LegacyTimeout

SpecLegacy == Init /\ [][NextLegacy]_vars

\* ------------------------------------- two threads calling one RobotController
Callers == {"A", "B"}
TwoCmds == {"ActivateRobot", "SetEOB(1)"}

\* what a single caller's bookkeeping holds; the two threads do not use it
solo == <<pc, cmd, trace, outcome, reported, reportedBy, matched, chkLogs,
          startLog, motionErr, maxlen, result, EOB, EOM, arg, error, link,
          hook, blamed>>

\* callers.at: where each thread stands; callers.cmds: the command it runs;
\* callers.outs: how its last command ended; callers.pending: the commands
\* the robot has not answered yet; callers.owner[q]: the thread whose
\* command frame q answers; callers.took: the frames each thread's response
\* search removed from the log
InitTwo ==
    /\ log = <<>>
    /\ channel = <<>>
    /\ emitted = 0
    /\ pc = "idle"
    /\ cmd = "none"
    /\ calls = 0
    /\ wire = 0
    /\ trace = <<>>
    /\ outcome = "none"
    /\ reported = NoMsg
    /\ reportedBy = "none"
    /\ matched = <<>>
    /\ chkLogs = <<>>
    /\ startLog = <<>>
    /\ evicted = {}
    /\ motionErr = {}
    /\ maxlen = LogSize
    /\ result = NoMsg
    /\ EOB = 1
    /\ EOM = 1
    /\ arg = 0
    /\ error = FALSE
    /\ cb = FALSE
    /\ notified = <<>>
    /\ bytes = <<>>
    /\ socket = TRUE
    /\ logId = 1
    /\ born = 0
    /\ blamed = "none"
    /\ callers = [at |-> [c \in Callers |-> "idle"],
                  cmds |-> [c \in Callers |-> "none"],
                  outs |-> [c \in Callers |-> "none"],
                  pending |-> <<>>,
                  owner |-> <<>>,
                  took |-> [c \in Callers |-> {}]]

\* the robot answers the oldest command it has not answered yet
TwoRobot ==
    /\ callers.pending # <<>>
    /\ emitted < MaxFrames
    /\ LET c == Head(callers.pending)
       IN  /\ channel' = Append(channel,
                               [code |-> Command(callers.cmds[c]).responses[1],
                                payload |-> 0, seq |-> emitted + 1])
           /\ callers' = [callers EXCEPT !.pending = Tail(@),
                                         !.owner = Append(@, c)]
    /\ emitted' = emitted + 1
    /\ UNCHANGED <<log, calls, wire, evicted>>
    /\ UNCHANGED solo

\* the robot sends a frame nobody asked for
TwoUnsolicited ==
    /\ emitted < MaxFrames
    /\ \E code \in {C1005, C3004} :
          channel' = Append(channel, [code |-> code, payload |-> 0,
                                      seq |-> emitted + 1])
    /\ callers' = [callers EXCEPT !.owner = Append(@, "none")]
    /\ emitted' = emitted + 1
    /\ UNCHANGED <<log, calls, wire, evicted>>
    /\ UNCHANGED solo

\* thread c runs send_command_handled up to the transmission; nothing keeps
\* it from doing so while the other thread's command is in progress
TwoBegin(c) ==
    /\ callers.at[c] = "idle"
    /\ calls < MaxCalls
    /\ calls' = calls + 1
    /\ \E name \in TwoCmds :
          /\ LET st == Run([log |-> log, channel |-> channel, wire |-> wire,
                            evicted |-> evicted], PreSend(Command(name)))
             IN  /\ log' = st.log
                 /\ channel' = st.channel
                 /\ wire' = st.wire
                 /\ evicted' = st.evicted
          /\ callers' = [callers EXCEPT !.at[c] = "wait1",
                                        !.cmds[c] = name,
                                        !.outs[c] = "none",
                                        !.took[c] = {},
                                        !.pending = Append(@, c)]
    /\ UNCHANGED emitted
    /\ UNCHANGED solo

\* thread c: a blocking refresh and the checks r that follow it
TwoConclude(c, l, r, retryAt) ==
    /\ log' = r.log
    /\ evicted' = evicted \cup Discarded(log, channel)
    /\ channel' = <<>>
    /\ callers' =
          [callers EXCEPT
             !.at[c] = IF r.kind = "notfound" THEN retryAt ELSE "idle",
             !.outs[c] = IF r.kind = "notfound" /\ retryAt # "idle"
                         THEN "none" ELSE r.kind,
             !.took[c] = IF r.kind = "ok" THEN SeqsOf(l) \ SeqsOf(r.log)
                         ELSE {}]
    /\ UNCHANGED <<emitted, calls, wire>>
    /\ UNCHANGED solo

TwoFirstAttempt(c) ==
    /\ callers.at[c] = "wait1"
    /\ WaitReturns(TRUE, "None", channel)
    /\ LET l == update_log(log, channel)
       IN  TwoConclude(c, l, FirstChecks(l, Command(callers.cmds[c])), "wait2")

TwoRetry(c) ==
    /\ callers.at[c] = "wait2"
    /\ WaitReturns(TRUE, "None", channel)
    /\ LET l == update_log(log, channel)
       IN  TwoConclude(c, l, RetryChecks(l, Command(callers.cmds[c])), "idle")

NextTwo ==
    \/ TwoRobot
    \/ TwoUnsolicited
    \/ \E c \in Callers : TwoBegin(c)
    \/ \E c \in Callers : TwoFirstAttempt(c)
    \/ \E c \in Callers : TwoRetry(c)

SpecTwo == InitTwo /\ [][NextTwo]_vars

\* ------------------------------------------------ MecademicLog used directly
MaxLogFrames == MaxFrames + 2
LogCodes == {C1005, C1013}
LogPrefixes == {GenericError, C1005, C1013}

\* what belongs to the commands of RobotController; the log does not use it
nolog == <<pc, cmd, calls, wire, outcome, reported, reportedBy, matched,
           motionErr, EOB, EOM, callers, arg, error, link, cb, blamed, bytes>>

\* MecademicLog(socket, log_size): an empty deque of the given maxlen
InitLog ==
    /\ log = <<>>
    /\ channel = <<>>
    /\ emitted = 0
    /\ pc = "idle"
    /\ cmd = "none"
    /\ calls = 0
    /\ wire = 0
    /\ trace = <<>>
    /\ outcome = "none"
    /\ reported = NoMsg
    /\ reportedBy = "none"
    /\ matched = <<>>
    /\ chkLogs = <<>>
    /\ startLog = <<>>
    /\ evicted = {}
    /\ motionErr = {}
    /\ maxlen \in {LogSize, LogSize + 1}
    /\ result = NoMsg
    /\ EOB = 1
    /\ EOM = 1
    /\ callers = <<>>
    /\ arg = 0
    /\ error = FALSE
    /\ cb = FALSE
    /\ notified = <<>>
    /\ bytes = <<>>
    /\ socket = TRUE
    /\ logId = 1
    /\ born = 0
    /\ blamed = "none"

\* one more frame reaches the socket
RobotEmitLog ==
    /\ emitted < MaxLogFrames
    /\ \E code \in LogCodes :
          channel' = Append(channel, [code |-> code, payload |-> 0,
                                      seq |-> emitted + 1])
    /\ emitted' = emitted + 1
    /\ UNCHANGED <<log, trace, result, startLog, chkLogs, evicted, maxlen,
                   notified>>
    /\ UNCHANGED nolog

\* update_log(wait_for_new_messages=False)
Refresh ==
    /\ LET u == update_log_cb(cb, log, channel, notified)
       IN  log' = u.log /\ notified' = u.notified
    /\ evicted' = evicted \cup Discarded(log, channel)
    /\ channel' = <<>>
    /\ trace' = <<Step("refresh", <<>>)>>
    /\ result' = NoMsg
    /\ startLog' = log
    /\ chkLogs' = <<channel>>
    /\ UNCHANGED <<emitted, maxlen>>
    /\ UNCHANGED nolog

\* get_last_code_occurance(code, delete_others)
Find ==
    /\ \E code \in LogPrefixes, delete_others \in BOOLEAN :
          LET r == get_last_code_occurance(log, code, delete_others)
          IN  /\ log' = r.log
              /\ result' = r.msg
              /\ trace' = <<Step(IF delete_others THEN "find_delete_others"
                                 ELSE "find", code)>>
    /\ startLog' = log
    /\ chkLogs' = <<>>
    /\ UNCHANGED <<channel, emitted, evicted, maxlen, notified>>
    /\ UNCHANGED nolog

\* remove_all_code(code)
RemoveAll ==
    /\ \E code \in LogPrefixes :
          /\ log' = remove_all_code(log, code)
          /\ trace' = <<Step("remove", code)>>
    /\ result' = NoMsg
    /\ startLog' = log
    /\ chkLogs' = <<>>
    /\ UNCHANGED <<channel, emitted, evicted, maxlen, notified>>
    /\ UNCHANGED nolog

\* get_first_message()
PopFirst ==
    /\ log' = IF log # <<>> THEN Tail(log) ELSE log
    /\ result' = IF log # <<>> THEN Head(log) ELSE NoMsg
    /\ trace' = <<Step("popleft", <<>>)>>
    /\ startLog' = log
    /\ chkLogs' = <<>>
    /\ UNCHANGED <<channel, emitted, evicted, maxlen, notified>>
    /\ UNCHANGED nolog

\* get_last_message()
PopLast ==
    /\ log' = IF log # <<>> THEN SubSeq(log, 1, Len(log) - 1) ELSE log
    /\ result' = IF log # <<>> THEN log[Len(log)] ELSE NoMsg
    /\ trace' = <<Step("pop", <<>>)>>
    /\ startLog' = log
    /\ chkLogs' = <<>>
    /\ UNCHANGED <<channel, emitted, evicted, maxlen, notified>>
    /\ UNCHANGED nolog

\* get_all_messages(code): the list returned is kept in chkLogs
Drain ==
    /\ log' = <<>>
    /\ chkLogs' = <<log>>
    /\ result' = NoMsg
    /\ trace' = <<Step("drain", <<>>)>>
    /\ startLog' = log
    /\ UNCHANGED <<channel, emitted, evicted, maxlen, notified>>
    /\ UNCHANGED nolog

\* get_log(): the copy returned is kept in chkLogs
Peek ==
    /\ chkLogs' = <<log>>
    /\ result' = NoMsg
    /\ trace' = <<Step("peek", <<>>)>>
    /\ startLog' = log
    /\ UNCHANGED <<log, channel, emitted, evicted, maxlen, notified>>
    /\ UNCHANGED nolog

\* MecademicLog(socket, log_size, on_new_messages_received): the callback
\* may be given or left None
InitNotify ==
    /\ log = <<>>
    /\ channel = <<>>
    /\ emitted = 0
    /\ pc = "idle"
    /\ cmd = "none"
    /\ calls = 0
    /\ wire = 0
    /\ trace = <<>>
    /\ outcome = "none"
    /\ reported = NoMsg
    /\ reportedBy = "none"
    /\ matched = <<>>
    /\ chkLogs = <<>>
    /\ startLog = <<>>
    /\ evicted = {}
    /\ motionErr = {}
    /\ maxlen = LogSize
    /\ result = NoMsg
    /\ EOB = 1
    /\ EOM = 1
    /\ callers = <<>>
    /\ arg = 0
    /\ error = FALSE
    /\ cb \in BOOLEAN
    /\ notified = <<>>
    /\ bytes = <<>>
    /\ socket = TRUE
    /\ logId = 1
    /\ born = 0
    /\ blamed = "none"

NextNotify ==
    \/ RobotEmitLog
    \/ Refresh
    \/ PopFirst

SpecNotify == InitNotify /\ [][NextNotify]_vars

\* update_log whose callback raises: the batch was taken from the receiver
\* and handed to the callback; the exception leaves update_log before
\* self.log.extend
RefreshRaises ==
    /\ cb
    /\ get_last_messages(channel, maxlen) # <<>>
    /\ notified' = Append(notified, [batch |-> get_last_messages(channel, maxlen),
                                     seen |-> log])
    /\ channel' = <<>>
    /\ outcome' = "raised"
    /\ trace' = <<Step("refresh", <<>>)>>
    /\ result' = NoMsg
    /\ startLog' = log
    /\ chkLogs' = <<channel>>
    /\ UNCHANGED <<log, emitted, evicted, maxlen, pc, cmd, calls, wire, reported,
                   reportedBy, matched, motionErr, EOB, EOM, callers, arg,
                   error, link, cb, blamed, bytes>>

NextRaise ==
    \/ RobotEmitLog
    \/ Refresh
    \/ RefreshRaises
    \/ PopFirst

SpecRaise == InitNotify /\ [][NextRaise]_vars

NextLog ==
    \/ RobotEmitLog
    \/ Peek
    \/ Refresh
    \/ Find
    \/ RemoveAll
    \/ PopFirst
    \/ PopLast
    \/ Drain

SpecLog == InitLog /\ [][NextLog]_vars

\* the argument-checking commands: SetEOB, SetEOM, SetBlending, MoveJoints
NextToggle ==
    \/ RobotEmitToggle
    \/ SetEOB
    \/ SetEOM
    \/ SetBlending
    \/ MoveJoints
    \/ FirstAttempt
    \/ Retry
    \/ MotionRefresh

SpecToggle == Init /\ [][NextToggle]_vars

\* ------------------------------------------------------------ properties
Verified == cmd \in VerifiedCmds
Returned == pc = "idle" /\ outcome # "none"
CountOp(tr, op) == Cardinality({i \in 1..Len(tr) : tr[i].op = op})
FirstOp(tr, op) == CHOOSE i \in 1..Len(tr) :
                       tr[i].op = op /\ \A j \in 1..(i - 1) : tr[j].op # op
Checks == {"specific", "generic", "response"}
MatchesAny(code, prefixes) ==
    \E i \in 1..Len(prefixes) : StartsWith(code, prefixes[i])
IsError(code) == StartsWith(code, GenericError)

\* the log held an expected response code or an error code at a check
Relevant(l, c) ==
    \E i \in 1..Len(l) :
        \/ IsError(l[i].code)
        \/ MatchesAny(l[i].code, c.errors)
        \/ MatchesAny(l[i].code, c.responses)
NothingSeen == \A k \in 1..Len(chkLogs) : ~Relevant(chkLogs[k], Command(cmd))

\* C1: a verified command with expected response codes that never sees an
\* expected response code or an error code in the log fails with "response
\* not found" after exactly two post-send refreshes: after one refresh it is
\* retrying, not failed, and there is never a third refresh.
C1_ExactlyOneRetry ==
    (Verified /\ Command(cmd).responses # <<>>) =>
        /\ CountOp(trace, "refresh") <= 2
        /\ (outcome = "notfound" => CountOp(trace, "refresh") = 2)
        /\ (CountOp(trace, "refresh") = 1 /\ NothingSeen =>
                pc = "wait2" /\ outcome = "none")
        /\ (Returned /\ NothingSeen =>
                outcome = "notfound" /\ CountOp(trace, "refresh") = 2)

C1_Witness ==
    /\ cmd = "ActivateRobot"
    /\ Returned
    /\ NothingSeen
    /\ outcome = "notfound"
    /\ Len(chkLogs) = 2

\* an entry matching a command-specific error code and another "1" entry
BothPresent(l, c) ==
    \E i, j \in 1..Len(l) :
        /\ i # j
        /\ MatchesAny(l[i].code, c.errors)
        /\ IsError(l[j].code)

\* C2: when the log after the post-send refresh holds an entry matching a
\* command-specific error code and another entry with prefix "1", the command
\* fails and the entry it reports is the command-specific one, raised by the
\* command-specific check.
C2_ErrorPrecedence ==
    (Verified /\ Len(chkLogs) >= 1 /\ BothPresent(chkLogs[1], Command(cmd))) =>
        /\ Returned
        /\ outcome = "error"
        /\ reportedBy = "specific"
        /\ MatchesAny(reported.code, Command(cmd).errors)

\* the generic entry is the newer one, which a generic search would return
C2_Witness ==
    /\ cmd = "ActivateRobot"
    /\ Len(chkLogs) = 1
    /\ Len(chkLogs[1]) = 2
    /\ chkLogs[1][1].code = C1013
    /\ chkLogs[1][2].code = C1011
    /\ outcome = "error"

\* C3: in every verified invocation the non-blocking refresh comes first, every
\* designated stale code is removed before the single transmission, nothing
\* but that refresh and those removals precedes the transmission, the stale
\* codes are gone from the log once the command is sent, and every check
\* follows a refresh that follows the transmission.
C3_StepOrdering ==
    (Verified /\ trace # <<>>) =>
        LET c == Command(cmd)
            sent == FirstOp(trace, "send")
        IN  /\ CountOp(trace, "send") >= 1
            /\ trace[1].op = "poll"
            /\ \A i \in 1..(sent - 1) : trace[i].op \in {"poll", "remove"}
            /\ \A r \in 1..Len(c.remove) :
                   \E i \in 2..(sent - 1) : trace[i] = Step("remove", c.remove[r])
            /\ (pc = "wait1" =>
                   \A r \in 1..Len(c.remove) : ~HasPrefix(log, c.remove[r]))
            /\ \A i \in 1..Len(trace) :
                   trace[i].op \in Checks =>
                       \E j \in (sent + 1)..(i - 1) : trace[j].op = "refresh"

C3_Witness ==
    /\ cmd = "ActivateRobot"
    /\ HasPrefix(startLog, C1005)
    /\ Len(chkLogs) = 2
    /\ outcome = "ok"

\* the entries of l that were not in the log before the transmission
Arrived(l) == SelectSeq(l, LAMBDA m : m.seq \notin SeqsOf(startLog))
OnlyStale1005(l) ==
    /\ HasPrefix(l, C1005)
    /\ \A i \in 1..Len(l) : IsError(l[i].code) => l[i].code = C1005
AckArrived ==
    /\ \A k \in 1..Len(chkLogs) : ~HasPrefix(Arrived(chkLogs[k]), GenericError)
    /\ \E k \in 1..Len(chkLogs) :
           HasPrefix(chkLogs[k], C2000) \/ HasPrefix(chkLogs[k], C2001)

\* C4: ActivateRobot started on a log whose only error entries are stale 1005
\* entries, and whose refreshes after the transmission bring a 2000 or 2001
\* entry and no error entry, reports success, and no 1005 entry that was in
\* the log before the transmission is still there.
C4_ActivateForgetsStale1005 ==
    (cmd = "ActivateRobot" /\ Returned /\ OnlyStale1005(startLog) /\ AckArrived) =>
        /\ outcome = "ok"
        /\ \A i \in 1..Len(log) :
               ~(log[i].code = C1005 /\ log[i].seq \in SeqsOf(startLog))

C4_Witness ==
    /\ cmd = "ActivateRobot"
    /\ Returned
    /\ OnlyStale1005(startLog)
    /\ AckArrived
    /\ outcome = "ok"
    /\ \E k \in 1..Len(chkLogs) : HasPrefix(chkLogs[k], C2001)

\* C5: a verified command with generic error handling enabled reports success
\* only if no log it checked (after the first refresh or after the retry
\* refresh) held an entry whose code starts with "1".
C5_GenericErrorIsFatal ==
    (Verified /\ Command(cmd).handle_all /\ outcome = "ok") =>
        \A k \in 1..Len(chkLogs) : ~HasPrefix(chkLogs[k], GenericError)

\* an error entry and an expected response are both in the checked log
C5_Witness ==
    /\ cmd = "ActivateRobot"
    /\ Returned
    /\ outcome = "error"
    /\ reportedBy = "generic"
    /\ HasPrefix(chkLogs[Len(chkLogs)], C2000)

\* send_command_handled has returned successfully (ResetError, which goes on
\* with a refresh of its own, has not touched the log yet)
HandledOk ==
    /\ Verified
    /\ outcome = "ok"
    /\ \/ pc = "tail"
       \/ pc = "idle" /\ cmd # "ResetError"

C7_SuppressedGenericNeverFails ==
    (Verified /\ ~Command(cmd).handle_all /\ outcome = "error") =>
        MatchesAny(reported.code, Command(cmd).errors)

HasSpecific(l, c) == \E i \in 1..Len(l) : MatchesAny(l[i].code, c.errors)

\* C8: the retry repeats the checks of the first attempt with the same
\* precedence: when the log refreshed by the retry holds an entry of a
\* command-specific error code, the command fails reporting that entry.
C8_RetryRepeatsChecks ==
    (Verified /\ Len(chkLogs) = 2 /\ HasSpecific(chkLogs[2], Command(cmd))) =>
        /\ outcome = "error"
        /\ MatchesAny(reported.code, Command(cmd).errors)

\* C9: a motion command with valid arguments transmits once with no refresh
\* before, then does one refresh that returns whether or not a frame has
\* arrived, and returns successfully having searched the log for nothing.
C9_FireAndForget ==
    (cmd \in MotionCmds /\ outcome # "validation") =>
        /\ wire = 1
        /\ reported = NoMsg
        /\ matched = <<>>
        /\ (pc = "mwait" =>
                /\ trace = <<Step("send", <<>>)>>
                /\ log = startLog
                /\ ENABLED MotionRefresh)
        /\ (pc = "idle" =>
                /\ trace = <<Step("send", <<>>), Step("refresh", <<>>)>>
                /\ outcome = "ok")

\* the refresh returned although the robot never sent a frame
C9_Witness ==
    /\ cmd = "MoveJoints"
    /\ Returned
    /\ outcome = "ok"
    /\ emitted = 0

MotionLeft == {m \in motionErr : m.seq \notin evicted}

\* C10 as stated: the verified command, with generic error handling enabled,
\* that follows a motion command which left an error entry in the log (not
\* evicted since) fails with an error.
C10_NextVerifiedAlwaysFails ==
    (Verified /\ Command(cmd).handle_all /\ Returned /\ MotionLeft # {}) =>
        outcome = "error"

\* C10, amended: a motion command never ends with an error and removes no
\* entry by query (every entry it started with is still in the log unless
\* capacity evicted it); and the verified command that follows, with generic
\* error handling enabled, fails reporting an error entry when a "1" entry the
\* motion command left is none of the codes the verified command forgets
\* before sending and was not evicted.
C10_MotionLeavesErrors ==
    /\ cmd \in MotionCmds =>
           /\ outcome \in {"none", "ok", "validation"}
           /\ reported = NoMsg
           /\ \A i \in 1..Len(startLog) :
                  startLog[i].seq \in SeqsOf(log) \cup evicted
           /\ (Returned /\ outcome = "ok" => \A m \in motionErr : m.seq \in SeqsOf(log))
    /\ (/\ Verified
        /\ Command(cmd).handle_all
        /\ Returned
        /\ \E m \in MotionLeft : ~MatchesAny(m.code, Command(cmd).remove)) =>
           /\ outcome = "error"
           /\ IsError(reported.code)

\* MoveJoints left 1011 behind and the next ActivateRobot failed on an error
C10_Witness ==
    /\ cmd = "ActivateRobot"
    /\ Returned
    /\ \E m \in MotionLeft : m.code = C1011
    /\ outcome = "error"

\* the argument is one the command accepts
Accepted(name, a) ==
    CASE name \in {"SetEOB", "SetEOM"} \cup ToggleCmds -> a \in {0, 1}
      [] name = "SetBlending" -> a >= 0 /\ a <= MaxBlending
      [] name = "MoveJoints" -> a = NumJoints
      [] OTHER -> TRUE

\* C11: a step that calls SetBlending, MoveJoints, SetEOB or SetEOM with an
\* argument outside the accepted range ends the command with a validation
\* error, transmits nothing, refreshes nothing and leaves the log and the
\* unread frames as they were; with an accepted argument the command is
\* transmitted.
C11_ValidationBeforeTransmission ==
    [][calls' # calls =>
          IF Accepted(cmd', arg')
          THEN outcome' = "none" /\ wire' = 1
          ELSE /\ outcome' = "validation"
               /\ pc' = "idle"
               /\ wire' = 0
               /\ trace' = <<>>
               /\ log' = log
               /\ channel' = channel]_vars

\* SetBlending(150) was rejected while a frame was waiting on the socket
C11_Witness ==
    /\ cmd = "SetBlending"
    /\ arg = MaxBlending + 50
    /\ outcome = "validation"
    /\ channel # <<>>
    /\ log # <<>>

\* the entries of l whose code starts with "1"
ErrorSeqs(l) == {l[i].seq : i \in {j \in 1..Len(l) : StartsWith(l[j].code, GenericError)}}

\* C12: a GetStatusRobot that has returned transmitted at most twice and
\* ended either with the status or with the 'response not found' failure.
C12_MissingStatusIsNotFound ==
    (cmd = "GetStatusRobot" /\ pc = "idle" /\ outcome # "none") =>
        /\ wire <= 2
        /\ outcome \in {"ok", "notfound"}
        /\ outcome = "ok" => result # NoMsg /\ StartsWith(result.code, C2007)

\* C13: a query that has returned did not fail on an error entry, and every
\* entry with prefix "1" that its last refresh left in the log is still there.
C13_QueriesIgnoreErrors ==
    (cmd \in QueryCmds /\ pc = "idle" /\ chkLogs # <<>>) =>
        /\ outcome # "error"
        /\ ErrorSeqs(chkLogs[Len(chkLogs)]) \subseteq SeqsOf(log)

\* C14: a step changes the EOB or EOM flag only when it is the step in
\* which the toggle's acknowledgment is found, so a toggle that fails leaves
\* the flag as it was.
C14_FlagFollowsAcknowledgment ==
    [][(EOB' # EOB \/ EOM' # EOM) => outcome' = "ok"]_vars

\* C15: every command that was started returns, whether or not the robot
\* sends anything after the transmission.
C15_EveryCommandReturns == (pc # "idle") ~> (pc = "idle")

\* where the invocation of a verified command stands
Phase(p, o) ==
    CASE p = "wait1" -> "Sent"
      [] p = "wait2" -> "Retrying"
      [] p \in {"idle", "tail"} /\ o = "ok" -> "ResponseMatched"
      [] p \in {"idle", "tail"} /\ o = "error" -> "ErrorDetected"
      [] p \in {"idle", "tail"} /\ o = "notfound" -> "Failed"
      [] OTHER -> "Idle"

Terminal == {"ResponseMatched", "ErrorDetected", "Failed"}

\* the transitions of one invocation
PhaseStep ==
    {<<"Sent", "ErrorDetected">>, <<"Sent", "ResponseMatched">>,
     <<"Sent", "Retrying">>, <<"Retrying", "ErrorDetected">>,
     <<"Retrying", "ResponseMatched">>, <<"Retrying", "Failed">>}

\* C16: a step that starts a verified command takes it from rest to Sent;
\* every other step of the invocation either leaves its phase alone (and, before
\* a terminal phase, is a step of the robot only) or follows one of Sent ->
\* ErrorDetected | ResponseMatched | Retrying and Retrying -> ErrorDetected |
\* ResponseMatched | Failed; so Retrying is entered at most once, a terminal
\* phase is never left within the invocation, and Failed follows only Retrying.
C16_InvocationStateMachine ==
    [][cmd' \in VerifiedCmds =>
          LET from == Phase(pc, outcome)
              to == Phase(pc', outcome')
          IN  IF calls' # calls
              THEN from \in Terminal \cup {"Idle"} /\ to = "Sent"
              ELSE \/ from = to /\ (from \in Terminal \/ trace' = trace)
                   \/ <<from, to>> \in PhaseStep]_vars

\* an invocation went Sent -> Retrying -> Failed
C16_Witness ==
    /\ Verified
    /\ Phase(pc, outcome) = "Failed"
    /\ CountOp(trace, "refresh") = 2
    /\ calls = MaxCalls

\* C17: the entries a thread's response search removed from the log are
\* answers to that thread's own command.
C17_OwnResponsesOnly ==
    \A c \in Callers : \A q \in callers.took[c] : callers.owner[q] = c

LastOp == IF trace = <<>> THEN "none" ELSE trace[Len(trace)].op

\* C18: the log never holds more entries than its capacity.
C18_CapacityInvariant == Len(log) <= maxlen

\* a refresh filled the log to its capacity and discarded entries
C18_Witness ==
    /\ LastOp = "refresh"
    /\ Len(log) = maxlen
    /\ SeqsOf(startLog) \ SeqsOf(log) # {}
    /\ Len(startLog) + Len(chkLogs[1]) > maxlen

\* what the caller can see of the entries: (code, payload)
Values(l) == [i \in 1..Len(l) |-> <<l[i].code, l[i].payload>>]

Entries(l) == {l[i] : i \in 1..Len(l)}

\* the entries of S listed in the order they arrived
RECURSIVE ByArrival(_)
ByArrival(S) ==
    IF S = {} THEN <<>>
    ELSE LET first == CHOOSE m \in S : \A n \in S : m.seq <= n.seq
         IN  <<first>> \o ByArrival(S \ {first})

LastN(l, n) == IF Len(l) <= n THEN l ELSE SubSeq(l, Len(l) - n + 1, Len(l))

\* C19: after a refresh whose batch did not fit, the log reads as the
\* capacity-many most recently arrived entries among those it held and those
\* of the batch, oldest first.
C19_FifoEviction ==
    (LastOp = "refresh" /\ Len(startLog) + Len(chkLogs[1]) > maxlen) =>
        Values(log) =
            Values(LastN(ByArrival(Entries(startLog) \cup Entries(chkLogs[1])),
                         maxlen))

\* the entries of l whose code starts with the prefix
Matching(l, prefix) == {m \in Entries(l) : StartsWith(m.code, prefix)}

\* C20: a prefix search returns nothing that does not start with the prefix
\* and, when the log held a match, returns what the match that arrived last
\* reads.
C20_LastMatchReturned ==
    LastOp \in {"find", "find_delete_others"} =>
        LET prefix == trace[1].code
            hits == Matching(startLog, prefix)
        IN  /\ result # NoMsg => StartsWith(result.code, prefix)
            /\ hits # {} =>
                  /\ result # NoMsg
                  /\ \E m \in hits : /\ \A n \in hits : n.seq <= m.seq
                                     /\ SameValue(result, m)

\* the last operation was a prefix search for the prefix it names
Searched == LastOp \in {"find", "find_delete_others"}

\* C21: after a prefix search that found a match, no entry with the prefix is
\* left when delete_others was set and one fewer than before otherwise, and
\* every entry without the prefix is still in the log.
C21_DeletionScoping ==
    (Searched /\ result # NoMsg) =>
        LET prefix == trace[1].code
        IN  /\ CountPrefix(log, prefix) =
                  IF LastOp = "find_delete_others" THEN 0
                  ELSE CountPrefix(startLog, prefix) - 1
            /\ Entries(startLog) \ Matching(startLog, prefix) \subseteq Entries(log)
            /\ Entries(log) \subseteq Entries(startLog)

\* a search with delete_others found one of two matches next to another entry
C21_Witness ==
    /\ LastOp = "find_delete_others"
    /\ result # NoMsg
    /\ CountPrefix(startLog, trace[1].code) = 2
    /\ Len(startLog) = 3
    /\ Len(log) = 1

\* C22: a prefix search on a log without a match returns nothing and leaves
\* the log as it was, entry for entry.
C22_MissLeavesLog ==
    (Searched /\ Matching(startLog, trace[1].code) = {}) =>
        result = NoMsg /\ log = startLog

\* a search missed on a log of two entries
C22_Witness ==
    /\ Searched
    /\ result = NoMsg
    /\ Len(startLog) = 2
    /\ startLog[1].seq # startLog[2].seq

\* C23: remove_all_code leaves exactly the entries that do not start with the
\* prefix, in the order they were in.
C23_RemoveAllExact ==
    LastOp = "remove" =>
        log = SelectSeq(startLog, LAMBDA m : ~StartsWith(m.code, trace[1].code))

\* remove_all_code removed two entries around one it kept
C23_Witness ==
    /\ LastOp = "remove"
    /\ Len(startLog) = 3
    /\ Len(log) = 1
    /\ log[1] = startLog[2]

\* the entry of a non-empty S that arrived first / last
Oldest(S) == CHOOSE m \in S : \A n \in S : m.seq <= n.seq
Newest(S) == CHOOSE m \in S : \A n \in S : n.seq <= m.seq

\* C24: get_first_message returns what the oldest entry in the log reads and
\* get_last_message what the newest reads, one entry leaving the log; on an
\* empty log both return nothing and change nothing.
C24_PopOldestNewest ==
    LastOp \in {"popleft", "pop"} =>
        IF startLog = <<>> THEN result = NoMsg /\ log = <<>>
        ELSE /\ Len(log) = Len(startLog) - 1
             /\ SameValue(result, IF LastOp = "popleft"
                                  THEN Oldest(Entries(startLog))
                                  ELSE Newest(Entries(startLog)))

\* C25: get_log returns the entries in the order they arrived and changes
\* nothing; get_all_messages returns what get_log would have and empties the
\* log.
C25_PeekAndDrain ==
    /\ LastOp = "peek" =>
          /\ log = startLog
          /\ Values(chkLogs[1]) = Values(ByArrival(Entries(log)))
    /\ LastOp = "drain" =>
          /\ log = <<>>
          /\ chkLogs[1] = startLog

Ascending(l) == \A i, j \in 1..Len(l) : i < j => l[i].seq < l[j].seq

\* the places where entry m was handed to the callback
Deliveries(m) ==
    {<<i, j>> \in (1..Len(notified)) \X (1..MaxLogFrames) :
        j <= Len(notified[i].batch) /\ notified[i].batch[j] = m}

\* the batch a refresh pulled was handed over, on the log as it was
LastBatchNotified ==
    (LastOp = "refresh" /\ chkLogs[1] # <<>>) =>
        /\ notified # <<>>
        /\ notified[Len(notified)].batch = LastN(chkLogs[1], maxlen)
        /\ notified[Len(notified)].seen = startLog

\* C26: with a callback registered, no call of the callback was for an empty
\* batch; each call's batch is in arrival order and was not yet in the log
\* the callback could see; every entry in the log was handed to the callback
\* exactly once; a refresh that pulled a batch made the call for exactly that
\* batch on the log as it was before; and a step calls the callback once if
\* it is a refresh that found frames on the socket, and not at all otherwise.
C26_NotifiedOncePerBatch ==
    /\ [](cb =>
            /\ \A i \in 1..Len(notified) :
                  /\ notified[i].batch # <<>>
                  /\ Ascending(notified[i].batch)
                  /\ Entries(notified[i].seen) \cap Entries(notified[i].batch) = {}
            /\ \A m \in Entries(log) : Cardinality(Deliveries(m)) = 1
            /\ LastBatchNotified)
    /\ [][cb => Len(notified') = Len(notified) +
                   (IF channel # <<>> /\ channel' = <<>> THEN 1 ELSE 0)]_vars

\* the callback was called for two batches, the second of which overflowed
\* the log
C26_Witness ==
    /\ cb
    /\ LastOp = "refresh"
    /\ Len(notified) = 2
    /\ Len(startLog) + Len(chkLogs[1]) > maxlen
    /\ log # <<>>

\* C27: the refresh of a motion command, which waits with a timeout, can
\* always return; when no frame has arrived it returns with the log as it
\* was and the command ends normally.
C27_TimeoutIsNotAnError ==
    /\ [](pc = "mwait" => ENABLED MotionRefresh)
    /\ [][(pc = "mwait" /\ channel = <<>> /\ pc' # "mwait") =>
              (log' = log /\ outcome' = "ok" /\ pc' = "idle")]_vars

\* a motion command returned from a refresh that found nothing, on a log
\* that held entries
C27_Witness ==
    /\ cmd = "MoveJoints"
    /\ Returned
    /\ outcome = "ok"
    /\ log # <<>>
    /\ log = startLog
    /\ channel = <<>>

\* C28: the step in which a refresh raises a transport error ends the
\* command with that error and leaves the log as it was; afterwards the
\* dispatcher is idle with a log within its capacity whose entries are
\* whole frames the robot sent.
C28_TransportErrorKeepsLog ==
    /\ [][(outcome' = "transport" /\ (pc # "idle" \/ calls' # calls)) =>
              (log' = log /\ pc' = "idle" /\ wire' <= 1)]_vars
    /\ [](outcome = "transport" =>
              /\ pc = "idle"
              /\ Len(log) <= maxlen
              /\ \A i \in 1..Len(log) : log[i].seq \in 1..emitted)

\* the retry's refresh raised while frames were waiting, on a log that held
\* entries
C28_Witness ==
    /\ outcome = "transport"
    /\ CountOp(trace, "refresh") = 2
    /\ log # <<>>
    /\ channel # <<>>
    /\ log = chkLogs[1]

\* C29: the dispatcher holds a log exactly while a connection is
\* established, and a log it holds contains only entries received on the
\* present connection.
C29_LogLifecycle ==
    /\ (logId # 0) <=> (socket /\ born >= 0)
    /\ logId # 0 => \A i \in 1..Len(log) : log[i].seq > born

\* the name of the method the caller invoked
Invoked(name) ==
    CASE name \in {"SetEOB(0)", "SetEOB(1)"} -> "SetEOB"
      [] name \in {"SetEOM(0)", "SetEOM(1)"} -> "SetEOM"
      [] OTHER -> name

\* C30: a command that ended with an error found or a response not found
\* raised an exception naming the command that was invoked, and an error
\* found carries the offending entry.
C30_FailureNamesCommand ==
    outcome \in {"error", "notfound"} =>
        /\ blamed = Invoked(cmd)
        /\ outcome = "error" => reported # NoMsg

\* the fields of a text between its commas
RECURSIVE Fields(_, _, _)
Fields(text, cur, acc) ==
    IF text = <<>> THEN Append(acc, cur)
    ELSE IF Head(text) = "," THEN Fields(Tail(text), <<>>, Append(acc, cur))
    ELSE Fields(Tail(text), Append(cur, Head(text)), acc)

IsDigit(t) == \E d \in 1..10 : DigitChars[d] = t
DigitValue(t) == (CHOOSE d \in 1..10 : DigitChars[d] = t) - 1

RECURSIVE ParseNat(_, _)
ParseNat(ts, acc) ==
    IF ts = <<>> THEN acc
    ELSE ParseNat(Tail(ts), 10 * acc + DigitValue(Head(ts)))

\* a field reads as an integer in the usual decimal notation
WellFormedInt(ts) ==
    LET ds == IF ts # <<>> /\ Head(ts) = "-" THEN Tail(ts) ELSE ts
    IN  ds # <<>> /\ \A i \in 1..Len(ds) : IsDigit(ds[i])

ParseInt(ts) ==
    IF Head(ts) = "-" THEN 0 - ParseNat(Tail(ts), 0) ELSE ParseNat(ts, 0)

\* C31: what was transmitted is the command text followed by one null byte,
\* the only one; the text is the name alone when there are no arguments,
\* and otherwise Name(a0,...,an): the fields between the parentheses read
\* back as the arguments, in order, with no comma before the parenthesis.
C31_WireEncoding ==
    bytes # <<>> =>
        LET args == trace[1].code
            text == SubSeq(bytes, 1, Len(bytes) - 1)
        IN  /\ bytes[Len(bytes)] = NUL
            /\ \A i \in 1..Len(text) : text[i] # NUL
            /\ text # <<>> /\ text[1] = cmd
            /\ args = <<>> => text = <<cmd>>
            /\ args # <<>> =>
                  /\ Len(text) >= 4
                  /\ text[2] = "("
                  /\ text[Len(text)] = ")"
                  /\ text[Len(text) - 1] # ","
                  /\ LET fs == Fields(SubSeq(text, 3, Len(text) - 1), <<>>, <<>>)
                     IN  /\ Len(fs) = Len(args)
                         /\ \A i \in 1..Len(fs) :
                               WellFormedInt(fs[i]) /\ ParseInt(fs[i]) = args[i]

\* the legacy client sent a command with two arguments, a negative one first
C31_Witness ==
    /\ bytes # <<>>
    /\ trace[1].op = "_send"
    /\ trace[1].code = <<-5, 100>>
    /\ bytes = <<cmd, "(", "-", "5", ",", "1", "0", "0", ")", NUL>>

\* C32: SetCartAcc and SetJointAcc reject p, and transmit nothing, exactly
\* when p is outside 1..100.
C32_AccelerationBounds ==
    cmd \in {"SetCartAcc", "SetJointAcc"} =>
        /\ (outcome = "validation") <=> ~(arg >= 1 /\ arg <= 100)
        /\ outcome = "validation" => wire = 0
        /\ outcome # "validation" => wire = 1

\* the entry that satisfied check_response: the checks before it found
\* nothing, so it searched the log as the last refresh left it
MatchedEntry ==
    get_last_code_occurance(chkLogs[Len(chkLogs)], matched, TRUE).msg

\* C33: a verified command that reports success found an expected response
\* that was not in the log when the command was transmitted.
C33_FreshAcknowledgment ==
    (cmd \in VerifiedCmds /\ outcome = "ok") =>
        /\ matched # <<>>
        /\ MatchedEntry # NoMsg
        /\ MatchedEntry.seq \notin SeqsOf(startLog)

\* C34: the entry whose payload a status or pose query returns was not in
\* the log when the query was invoked.
C34_FreshStatus ==
    (cmd \in {"GetStatusRobot", "GetConf"} /\ outcome = "ok") =>
        /\ result # NoMsg
        /\ result.code = QueryCode(cmd)
        /\ result.seq \notin SeqsOf(startLog)

\* l without its k-th entry, the others in place
AllBut(l, k) == SubSeq(l, 1, k - 1) \o SubSeq(l, k + 1, Len(l))

\* C35: a search with delete_others=False that found an entry leaves the
\* log as it was with that one entry taken out, the others in the order
\* they had.
C35_OrderPreserved ==
    (LastOp = "find" /\ result # NoMsg) =>
        Values(log) = Values(AllBut(startLog, LastIndex(startLog, trace[1].code)))

\* C36: an invocation of a verified command has transmitted once, whether
\* or not its retry was taken; an invocation of a query has transmitted
\* once until its retry is taken and twice from then on.
C36_TransmissionCount ==
    /\ cmd \in VerifiedCmds =>
          /\ wire = 1
          /\ CountOp(trace, "send") = 1
    /\ cmd \in {"GetStatusRobot", "GetConf"} =>
          /\ wire = CountOp(trace, "send")
          /\ wire = IF pc = "qwait2" \/ CountOp(trace, "refresh") = 2
                    THEN 2 ELSE 1

\* a status query found its answer at the retry, after a second transmission
C36_Witness ==
    /\ cmd = "GetStatusRobot"
    /\ Returned /\ outcome = "ok"
    /\ CountOp(trace, "refresh") = 2
    /\ wire = 2

\* C37: a connect that returned normally left an established connection
\* with its log; a connect that failed left the dispatcher closed (no
\* socket held), which is what makes the next connect open a connection.
C37_ConnectAllOrNothing ==
    (cmd = "connect" /\ Returned) =>
        /\ outcome = "ok" => (socket /\ born >= 0 /\ logId # 0)
        /\ outcome # "ok" => ~socket

\* C38: after a refresh, every frame it took from the receiver that the
\* capacity leaves room for is in the log.
C38_NoFrameLost ==
    LastOp = "refresh" =>
        \A i \in 1..Len(chkLogs[1]) :
            i > Len(chkLogs[1]) - maxlen => chkLogs[1][i] \in Entries(log)

ErrorsIn(l) == {m \in Entries(l) : IsError(m.code)}

\* C39: the step that transmits ResetError leaves in the log what the
\* pre-send poll had gathered, less every entry with prefix "1"; an error
\* that fails a ResetError was not in the log at that poll; and a
\* ResetError that returned successfully left no entry with prefix "1".
C39_ResetErrorForgetsErrors ==
    /\ [][(cmd' = "ResetError" /\ pc = "idle" /\ pc' = "wait1") =>
              /\ wire' = 1
              /\ ErrorsIn(log') = {}
              /\ Entries(log') = Entries(startLog') \ ErrorsIn(startLog')]_vars
    /\ [](cmd = "ResetError" =>
              /\ outcome = "error" => reported.seq \notin SeqsOf(startLog)
              /\ (Returned /\ outcome = "ok") => ErrorsIn(log) = {})

\* ResetError returned successfully although errors were in the log before
\* it was sent and another one came with the acknowledgment
C39_Witness ==
    /\ cmd = "ResetError" /\ Returned /\ outcome = "ok"
    /\ ErrorsIn(startLog) # {}
    /\ ErrorsIn(chkLogs[Len(chkLogs)]) # {}
    /\ log = <<>>

====
